---- MODULE Spec2Model ----
(***************************************************************************)
(* cargo-clean-recursive (src/src/main.rs): a depth-bounded, skip-aware    *)
(* recursive directory walk that spawns one cargo clean per directory    *)
(* holding a Cargo.toml, followed by a collector that waits on every       *)
(* spawned child and sums the sizes cargo reports.                         *)
(*                                                                         *)
(* The file system, the outcome of every fallible read, of every spawn and *)
(* of every child process are the environment: the tree is drawn in Init,  *)
(* the outcomes are drawn at the step that performs the operation.         *)
(***************************************************************************)
EXTENDS Integers, Sequences, FiniteSets, TLC

\* ------------------------------------------------------------------ bounds
\* Number of directories of the scanned tree (the scan root is directory 1).
MaxDirs == 3
\* Largest number of environment failures (I/O, spawn, wait) in one run.
MaxFaults == 1

\* ------------------------------------------------------------- environment
Root == 1
Dirs == 1..MaxDirs
\* The entry of a listing that is the Cargo.toml file (not a directory).
MarkerEntry == 0
\* file_name() of the scan root is None for paths such as "/" or "..".
NoName == "<none>"
\* Directory d is named OwnName(d), or ".git".
OwnName(d) == <<"a", "b", "c", "d", "e", "f">>[d]
\* Every --depth value up to one that reaches the whole tree.
MaxDepth == MaxDirs

DEFAULT_SKIP_DIR_NAMES == {".git", ".rustup", ".cargo"}

\* Option<Vec<String>> of --skips: None, or the names given.
NoSkips == [some |-> FALSE, names |-> {}]
SomeSkips(S) == [some |-> TRUE, names |-> S]
SkipsArgs == {NoSkips, SomeSkips({"b"})}

IoErrorHandling == {"Ignore", "RaiseUnexpected", "RaiseAll"}
ErrorKinds == {"PermissionDenied", "NotFound"}
\* Every operation of the program that can fail.
Operations == {"spawn", "read_dir", "entry", "file_type", "wait"}

\* std::result::Result<T, io::Error>
IoOk(v) == [ok |-> TRUE, v |-> v, kind |-> "none"]
IoErr(k) == [ok |-> FALSE, v |-> <<>>, kind |-> k]
\* The outcome o of a fallible read that yields v when it succeeds.
IoResult(o, v) == IF o = "Ok" THEN IoOk(v) ELSE IoErr(o)

VARIABLES
    parent,       \* parent[d]: the directory that contains directory d (0 for the root)
    name,         \* name[d]: basename of d as file_name().to_str() gives it
    marker,       \* marker[d]: d/Cargo.toml is a file
    args,         \* the parsed Args: depth, skips, io_error_handling, dry_run
    phase,        \* position of Args::run: "walk", "collect", "done", "failed"
    stack,        \* call stack of process_dir, innermost call last
    executions,   \* the Vec<CargoCleanExecution>, with what became of each
    next_exec,    \* index of the execution the collector's for loop takes next
    sum,          \* the ByteSize total, in bytes
    faults,       \* number of environment failures so far
    last_fault,   \* the latest environment failure: operation, directory, kind
    visited,      \* directories on which process_dir got past the depth and skip tests
    errored,      \* directories whose process_dir call returned Err
    stderr,       \* what the program wrote to the error stream, by kind of line
    last_io,      \* the last application of handle_io_error: input, policy, result
    cargo,        \* what a cargo clean child may end with: exit status and stderr text
    fallible,     \* the operations that the environment may fail in this run
    calls         \* calls[d]: number of calls of process_dir on directory d so far

vars == <<parent, name, marker, args, phase, stack, executions, next_exec, sum,
          faults, last_fault, visited, errored, stderr, last_io, cargo, fallible,
          calls>>

envVars == <<parent, name, marker, args, cargo, fallible>>

\* ------------------------------------------------------------ pure helpers
\* Args::run lines 66-74
Skips(a) ==
    IF a.skips.some THEN a.skips.names ELSE DEFAULT_SKIP_DIR_NAMES

\* Children of d in the order read_dir yields them.
ChildSeq(d) == SelectSeq([i \in 1..MaxDirs |-> i], LAMBDA c: parent[c] = d)

\* What read_dir(d) iterates over: the Cargo.toml file, if any, and the
\* subdirectories.
Entries(d) == (IF marker[d] THEN <<MarkerEntry>> ELSE <<>>) \o ChildSeq(d)

RECURSIVE Level(_)
\* Distance of d from the scan root.
Level(d) == IF d = Root THEN 0 ELSE 1 + Level(parent[d])


\* A faulty variant of handle_io_error: RaiseUnexpected propagates every error.
HandleIoErrorStrict(res, handling) ==
    IF res.ok
    THEN [tag |-> "Continue", v |-> res.v]
    ELSE IF handling = "Ignore"
         THEN [tag |-> "Break", v |-> res.v]
         ELSE [tag |-> "Err", v |-> res.v]

\* A faulty variant of handle_io_error: a permission-denied failure is expected under
\* every policy.
HandleIoErrorLenient(res, handling) ==
    IF res.ok
    THEN [tag |-> "Continue", v |-> res.v]
    ELSE IF handling = "Ignore" \/ res.kind = "PermissionDenied"
         THEN [tag |-> "Break", v |-> res.v]
         ELSE [tag |-> "Err", v |-> res.v]

\* IoErrorHandlingExt::handle_io_error
handle_io_error(res, handling) ==
    IF res.ok
    THEN [tag |-> "Continue", v |-> res.v]
    ELSE CASE handling = "Ignore" -> [tag |-> "Break", v |-> res.v]
           [] handling = "RaiseUnexpected" ->
                IF res.kind = "PermissionDenied"
                THEN [tag |-> "Break", v |-> res.v]
                ELSE [tag |-> "Err", v |-> res.v]
           [] handling = "RaiseAll" -> [tag |-> "Err", v |-> res.v]

\* ------------------------------------------------------- cargo's output
\* A text is a sequence of pieces: words, and runs of whitespace between them.
Space == " "
Newline == "\n"
IsWhitespace(p) == p \in {Space, "  ", Newline, "\r\n"}
HasNewline(p) == p \in {Newline, "\r\n"}

\* The output of a child that has not been waited on.
NoOutput == [success |-> FALSE, text |-> "none"]

RemovedNone == <<"Removed", Space, "0", Space, "files">>
SummaryNone == <<"Summary", Space, "0", Space, "files">>
RemovedSome ==
    <<"Removed", Space, "2020", Space, "files,", Space, "7MiB", Space, "total">>
SummarySome ==
    <<"Summary", Space, "5", Space, "files,", Space, "1.2MiB", Space, "total">>

\* What the modelled cargo may write to its error stream, by name.
CargoTexts ==
    { "RemovedNone", "SummaryNone", "RemovedSome", "SummarySome",
      "RemovedNoneFramed", "WarningFirst", "BadSize", "BareNumber" }

\* The text that a name stands for.
CargoText(t) ==
    CASE t = "RemovedNone" -> RemovedNone
      [] t = "SummaryNone" -> SummaryNone
      [] t = "RemovedSome" -> RemovedSome
      [] t = "SummarySome" -> SummarySome
      [] t = "RemovedNoneFramed" -> <<Newline>> \o RemovedNone \o <<Newline>>
      [] t = "WarningFirst" ->
            <<"warning:", Space, "unused", Newline>> \o RemovedSome
      [] t = "BadSize" ->
            <<"Removed", Space, "3", Space, "files,", Space, "lots", Space, "total">>
      [] t = "BareNumber" -> <<"note:", Space, "took", Space, "about", Space, "512">>
      [] OTHER -> <<>>

\* How a child may end: every text with a successful status, and a failing
\* status with a text that would parse.
CargoResults ==
    {[success |-> TRUE, text |-> t] : t \in CargoTexts}
        \cup {[success |-> FALSE, text |-> "RemovedSome"]}

\* str::trim
RECURSIVE TrimStart(_)
TrimStart(t) ==
    IF t # <<>> /\ IsWhitespace(Head(t)) THEN TrimStart(Tail(t)) ELSE t
RECURSIVE TrimEnd(_)
TrimEnd(t) ==
    IF t # <<>> /\ IsWhitespace(t[Len(t)])
    THEN TrimEnd(SubSeq(t, 1, Len(t) - 1))
    ELSE t
Trim(t) == TrimEnd(TrimStart(t))

\* Index of the first piece of t that holds a line feed, 0 if there is none.
RECURSIVE FindNewline(_, _)
FindNewline(t, j) ==
    IF j > Len(t) THEN 0
    ELSE IF HasNewline(t[j]) THEN j ELSE FindNewline(t, j + 1)

\* Args::run lines 116-119: split_once at the first line feed, else the whole
\* text. A carriage return before the line feed stays on the first line.
FirstLine(t) ==
    LET j == FindNewline(t, 1)
    IN  IF j = 0 THEN t
        ELSE SubSeq(t, 1, j - 1) \o (IF t[j] = "\r\n" THEN <<"\r">> ELSE <<>>)

\* str::split_whitespace
SplitWhitespace(t) == SelectSeq(t, LAMBDA p : ~IsWhitespace(p) /\ p # "\r")

\* Iterator::nth
Nth(seq, n) ==
    IF n + 1 <= Len(seq) THEN [some |-> TRUE, v |-> seq[n + 1]]
    ELSE [some |-> FALSE, v |-> ""]

MiB == 1024 * 1024
\* bytesize::ByteSize::from_str on the tokens of the modelled texts: a number
\* with a unit, or a bare number of bytes; anything else is an error.
ByteSizeFromStr(tok) ==
    CASE tok = "7MiB" -> [ok |-> TRUE, bytes |-> 7 * MiB]
      [] tok = "1.2MiB" -> [ok |-> TRUE, bytes |-> (12 * MiB) \div 10]
      [] tok = "512" -> [ok |-> TRUE, bytes |-> 512]
      [] OTHER -> [ok |-> FALSE, bytes |-> 0]

\* A faulty variant of Call: the callee gets one more level than it is given.
CallDeeper(path, depth) == [path |-> path, depth |-> depth + 1, pc |-> "enter", i |-> 1]

\* A call of process_dir(path, depth, ..) that has not started; i is the index
\* of the entry its loop reads next.
Call(path, depth) == [path |-> path, depth |-> depth, pc |-> "enter", i |-> 1]

\* ------------------------------------------------------------------- Init
\* The directories from the scan root down to d, d included, under parents p.
RECURSIVE PathTo(_, _)
PathTo(p, d) == IF d = Root THEN {Root} ELSE {d} \cup PathTo(p, p[d])

\* Trees of MaxDirs directories, numbered in the order a depth-first walk that
\* follows the listings meets them: the parent of d is d - 1 or one of the
\* directories above it.
Trees == {p \in [Dirs -> 0..MaxDirs] :
            /\ p[Root] = 0
            /\ \A d \in Dirs \ {Root} : p[d] \in 1..(d - 1)
            /\ \A d \in Dirs \ {Root} : p[d] \in PathTo(p, d - 1)}

\* Names of the directories: each has its own name, but for at most one,
\* which is named ".git"; so siblings have different names.
Namings(p) == {n \in [Dirs -> {OwnName(d) : d \in Dirs} \cup {".git"}] :
                 /\ \A d \in Dirs : n[d] \in {OwnName(d), ".git"}
                 /\ \A c, d \in Dirs : (c # d /\ n[c] = ".git") => n[d] # ".git"}

\* The state of Args::run at line 86, before the first call of process_dir.
Start ==
    /\ phase = "walk"
    /\ stack = <<Call(Root, args.depth)>>
    /\ executions = <<>>
    /\ next_exec = 1
    /\ sum = 0
    /\ faults = 0
    /\ last_fault = <<>>
    /\ visited = {}
    /\ errored = {}
    /\ stderr = [checking |-> 0, error |-> 0, verbose |-> 0, parse_warning |-> 0,
                 wait_warning |-> 0, summary |-> <<>>]
    /\ last_io = <<>>
    /\ calls = [d \in Dirs |-> IF d = Root THEN 1 ELSE 0]

\* Every tree, naming, set of project roots, depth and policy; the default
\* skip set at every depth and an overriding one at full depth; children that
\* succeed and report a size.
Init ==
    /\ parent \in Trees
    /\ name \in Namings(parent)
    /\ marker \in [Dirs -> BOOLEAN]
    /\ args \in {a \in [depth : 0..MaxDepth, skips : SkipsArgs,
                         io_error_handling : IoErrorHandling,
                         dry_run : {FALSE}, verbose : {FALSE}] :
                   a.skips.some => a.depth = MaxDepth}
    /\ cargo = {[success |-> TRUE, text |-> "RemovedSome"]}
    /\ fallible = Operations
    /\ Start

\* ------------------------------------------------------------ walk: helpers
Top == stack[Len(stack)]
Pop == SubSeq(stack, 1, Len(stack) - 1)
SetTop(f) == [stack EXCEPT ![Len(stack)] = f]

\* The environment may fail an operation while its failure budget lasts.
CanFail == faults < MaxFaults
\* The environment may fail operation op now.
MayFail(op) == CanFail /\ op \in fallible
\* A failure of operation op in the call on directory d: its error kind and
\* what it was classified as ("Break", "Err", or "Warn" for a failed wait).
Fault(op, d, k, tag) == [op |-> op, dir |-> d, kind |-> k, tag |-> tag]

\* Outcomes of a fallible read: success, or one of the error kinds.
IoOutcomes(op) == {"Ok"} \cup (IF MayFail(op) THEN ErrorKinds ELSE {})
\* Outcomes of an operation that succeeds or fails.
OkOrNot(op) == {TRUE} \cup (IF MayFail(op) THEN {FALSE} ELSE {})

\* A faulty variant of Return: the caller propagates its child's error (as a ? at the
\* call site would) instead of printing it, so the error unwinds to Args::run.
ReturnPropagating(result, out) ==
    /\ errored' = IF result = "Err"
                  THEN errored \cup {stack[j].path : j \in 1..Len(stack)}
                  ELSE errored
    /\ IF Len(stack) = 1 \/ result = "Err"
       THEN /\ stack' = <<>>
            /\ phase' = IF result = "Err" THEN "failed" ELSE "collect"
            /\ stderr' = out
       ELSE /\ stack' = Pop
            /\ phase' = phase
            /\ stderr' = out

\* A faulty variant of Return: after printing its child's error the caller leaves its
\* loop, so the entries that follow are not read.
ReturnSkippingSiblings(result, out) ==
    /\ errored' = IF result = "Err" THEN errored \cup {Top.path} ELSE errored
    /\ IF Len(stack) = 1
       THEN /\ stack' = <<>>
            /\ phase' = IF result = "Err" THEN "failed" ELSE "collect"
            /\ stderr' = out
       ELSE /\ stack' = IF result = "Err"
                        THEN [Pop EXCEPT ![Len(Pop)].i =
                                  Len(Entries(Pop[Len(Pop)].path)) + 1]
                        ELSE Pop
            /\ phase' = phase
            /\ stderr' = IF result = "Err"
                         THEN [out EXCEPT !.error = @ + 1]
                         ELSE out

\* The innermost process_dir call returns result, having written out to the
\* error stream. The root call returns to Args::run (line 93, the ? operator);
\* any other call returns to its parent's loop (lines 213-222), which prints
\* an error and goes on with the next entry.
Return(result, out) ==
    /\ errored' = IF result = "Err" THEN errored \cup {Top.path} ELSE errored
    /\ IF Len(stack) = 1
       THEN /\ stack' = <<>>
            /\ phase' = IF result = "Err" THEN "failed" ELSE "collect"
            /\ stderr' = out
       ELSE /\ stack' = Pop
            /\ phase' = phase
            /\ stderr' = IF result = "Err"
                         THEN [out EXCEPT !.error = @ + 1]
                         ELSE out

\* The innermost call enters or stays in its loop, about to read entry i.
Loop(i, out) ==
    /\ stack' = SetTop([Top EXCEPT !.pc = "loop", !.i = i])
    /\ stderr' = out
    /\ UNCHANGED <<phase, errored>>

\* A faulty variant of spawn_cargo_clean: the child is run to completion at the spawn
\* (as Command::output would), so the walk waits on it.
spawn_and_wait(current_dir, spawned) ==
    IF spawned
    THEN IoOk([path |-> current_dir, child |-> "exited", waited |-> 1,
               outcome |-> "pending", size |-> 0, output |-> NoOutput])
    ELSE IoErr("spawn")

\* spawn_cargo_clean: a running child paired with the path, or an error.
spawn_cargo_clean(current_dir, spawned) ==
    IF spawned
    THEN IoOk([path |-> current_dir, child |-> "running", waited |-> 0,
               outcome |-> "pending", size |-> 0, output |-> NoOutput])
    ELSE IoErr("spawn")

\* detect_and_clean(path, ..) where the spawn, if any, has outcome spawned:
\* Ok(()) without a spawn, Ok(()) with the execution to push, or Err.
detect_and_clean(path, spawned) ==
    IF ~marker[path]
    THEN [ok |-> TRUE, checked |-> FALSE, pushed |-> <<>>]
    ELSE LET r == spawn_cargo_clean(path, spawned)
         IN  IF r.ok
             THEN [ok |-> TRUE, checked |-> TRUE, pushed |-> <<r.v>>]
             ELSE [ok |-> FALSE, checked |-> TRUE, pushed |-> <<>>]

\* A faulty variant of Skipped: the names given with --skips are not used.
SkippedByDefaultOnly(path) == name[path] \in DEFAULT_SKIP_DIR_NAMES

\* A faulty variant of Skipped: the skip test is never positive.
SkippedNever(path) == FALSE

\* process_dir line 186-190: the basename of path is in the skip set.
Skipped(path) == name[path] # NoName /\ name[path] \in Skips(args)

\* ------------------------------------------------------------ walk: actions
\* A faulty variant of process_dir: the directory is listed first, and its
\* cleanup is dispatched only when the listing could be opened.
ListThenDispatch ==
    /\ phase = "walk"
    /\ Top.pc = "enter"
    /\ IF Top.depth = 0 \/ Skipped(Top.path)
       THEN /\ Return("Ok", stderr)
            /\ UNCHANGED <<visited, executions, faults, last_fault, last_io>>
       ELSE /\ visited' = visited \cup {Top.path}
            /\ \E o \in IoOutcomes("read_dir") :
                 LET res == IoResult(o, Entries(Top.path))
                     h == handle_io_error(res, args.io_error_handling)
                 IN  /\ last_io' = <<res, args.io_error_handling, h>>
                     /\ IF ~res.ok
                        THEN /\ faults' = faults + 1
                             /\ last_fault' =
                                  Fault("read_dir", Top.path, res.kind, h.tag)
                             /\ UNCHANGED executions
                             /\ IF h.tag = "Break" THEN Return("Ok", stderr)
                                ELSE Return("Err", stderr)
                        ELSE LET dc == detect_and_clean(Top.path, TRUE)
                                 out == IF dc.checked
                                        THEN [stderr EXCEPT !.checking = @ + 1]
                                        ELSE stderr
                             IN  /\ executions' = executions \o dc.pushed
                                 /\ UNCHANGED <<faults, last_fault>>
                                 /\ Loop(1, out)
    /\ UNCHANGED <<envVars, calls, next_exec, sum>>

\* A faulty variant of process_dir: no test of the depth.
ProcessDirAtAnyDepth ==
    /\ phase = "walk"
    /\ Top.pc = "enter"
    /\ IF Skipped(Top.path)
       THEN /\ Return("Ok", stderr)
            /\ UNCHANGED <<visited, executions, faults, last_fault, last_io>>
       ELSE /\ visited' = visited \cup {Top.path}
            /\ \E spawned \in OkOrNot("spawn") :
                 LET dc == detect_and_clean(Top.path, spawned)
                     out == IF dc.checked
                            THEN [stderr EXCEPT !.checking = @ + 1]
                            ELSE stderr
                 IN  /\ marker[Top.path] \/ spawned
                     /\ executions' = executions \o dc.pushed
                     /\ IF ~dc.ok
                        THEN /\ faults' = faults + 1
                             /\ last_fault' = Fault("spawn", Top.path, "spawn", "Err")
                             /\ Return("Err", out)
                             /\ UNCHANGED last_io
                        ELSE \E o \in IoOutcomes("read_dir") :
                               LET res == IoResult(o, Entries(Top.path))
                                   h == handle_io_error(res, args.io_error_handling)
                               IN  /\ last_io' = <<res, args.io_error_handling, h>>
                                   /\ IF res.ok
                                      THEN UNCHANGED <<faults, last_fault>>
                                      ELSE /\ faults' = faults + 1
                                           /\ last_fault' =
                                                Fault("read_dir", Top.path, res.kind, h.tag)
                                   /\ CASE h.tag = "Continue" -> Loop(1, out)
                                        [] h.tag = "Break" -> Return("Ok", out)
                                        [] h.tag = "Err" -> Return("Err", out)
    /\ UNCHANGED <<envVars, calls, next_exec, sum>>

\* process_dir lines 182-201: the depth test, the skip test, detect_and_clean
\* and read_dir, up to the start of the loop over the entries.
process_dir ==
    /\ phase = "walk"
    /\ Top.pc = "enter"
    /\ IF Top.depth = 0 \/ Skipped(Top.path)
       THEN /\ Return("Ok", stderr)
            /\ UNCHANGED <<visited, executions, faults, last_fault, last_io>>
       ELSE /\ visited' = visited \cup {Top.path}
            /\ \E spawned \in OkOrNot("spawn") :
                 LET dc == detect_and_clean(Top.path, spawned)
                     out == IF dc.checked
                            THEN [stderr EXCEPT !.checking = @ + 1]
                            ELSE stderr
                 IN  /\ marker[Top.path] \/ spawned
                     /\ executions' = executions \o dc.pushed
                     /\ IF ~dc.ok
                        THEN /\ faults' = faults + 1
                             /\ last_fault' = Fault("spawn", Top.path, "spawn", "Err")
                             /\ Return("Err", out)
                             /\ UNCHANGED last_io
                        ELSE \E o \in IoOutcomes("read_dir") :
                               LET res == IoResult(o, Entries(Top.path))
                                   h == handle_io_error(res, args.io_error_handling)
                               IN  /\ last_io' = <<res, args.io_error_handling, h>>
                                   /\ IF res.ok
                                      THEN UNCHANGED <<faults, last_fault>>
                                      ELSE /\ faults' = faults + 1
                                           /\ last_fault' =
                                                Fault("read_dir", Top.path, res.kind, h.tag)
                                   /\ CASE h.tag = "Continue" -> Loop(1, out)
                                        [] h.tag = "Break" -> Return("Ok", out)
                                        [] h.tag = "Err" -> Return("Err", out)
    /\ UNCHANGED <<envVars, calls, next_exec, sum>>

\* process_dir lines 203-224: one iteration of the loop over the entries. The
\* DirEntry that the iterator yields is the one-element sequence of the entry.
next_entry ==
    /\ phase = "walk"
    /\ Top.pc = "loop"
    /\ Top.i <= Len(Entries(Top.path))
    /\ \E o \in IoOutcomes("entry") :
         LET res == IoResult(o, <<Entries(Top.path)[Top.i]>>)
             h == handle_io_error(res, args.io_error_handling)
         IN  /\ last_io' = <<res, args.io_error_handling, h>>
             /\ CASE h.tag = "Break" ->
                       /\ faults' = faults + 1
                       /\ last_fault' = Fault("entry", Top.path, res.kind, h.tag)
                       /\ Loop(Top.i + 1, stderr)
                  [] h.tag = "Err" ->
                       /\ faults' = faults + 1
                       /\ last_fault' = Fault("entry", Top.path, res.kind, h.tag)
                       /\ Return("Err", stderr)
                  [] h.tag = "Continue" ->
                       \E file_type_ok \in OkOrNot("file_type") :
                         IF ~file_type_ok
                         THEN /\ faults' = faults + 1
                              /\ last_fault' = Fault("file_type", Top.path, "NotFound", "Err")
                              /\ Return("Err", stderr)
                         ELSE /\ UNCHANGED <<faults, last_fault>>
                              /\ IF h.v[1] # MarkerEntry
                                 THEN /\ stack' = Append(SetTop([Top EXCEPT !.i = @ + 1]),
                                                         Call(h.v[1], Top.depth - 1))
                                      /\ UNCHANGED <<phase, errored, stderr>>
                                 ELSE Loop(Top.i + 1, stderr)
    /\ calls' = IF Len(stack') > Len(stack)
                THEN [calls EXCEPT ![stack'[Len(stack')].path] = @ + 1]
                ELSE calls
    /\ UNCHANGED <<envVars, executions, next_exec, sum, visited>>

\* process_dir line 226: the listing is exhausted.
loop_end ==
    /\ phase = "walk"
    /\ Top.pc = "loop"
    /\ Top.i > Len(Entries(Top.path))
    /\ Return("Ok", stderr)
    /\ UNCHANGED <<envVars, calls, executions, next_exec, sum, faults, last_fault, visited,
                   last_io>>

\* The cargo clean that the collector waits for finishes. A child is
\* "running" from its spawn until an exit is delivered to a wait: whether a
\* child that nobody waits for has already finished cannot be observed and is
\* not recorded.
child_exit ==
    /\ phase = "collect"
    /\ next_exec <= Len(executions)
    /\ executions[next_exec].child = "running"
    /\ executions' = [executions EXCEPT ![next_exec].child = "exited"]
    /\ UNCHANGED <<envVars, calls, phase, stack, next_exec, sum, faults, last_fault, visited,
                   errored, stderr, last_io>>

\* -------------------------------------------------------------- collector
\* A faulty variant of IsZeroPattern: no first line short-circuits the parse.
IsZeroPatternNever(line, dry_run) == FALSE

\* Args::run lines 122-132: the first line says that nothing was removed.
IsZeroPattern(line, dry_run) ==
    IF dry_run THEN line = SummaryNone ELSE line = RemovedNone

\* A faulty variant of ParseOutput: the size is taken from the 2nd token.
ParseOutputSecondToken(output, dry_run, verbose) ==
    LET none == [outcome |-> "unsuccessful", size |-> 0, warned |-> 0, echoed |-> 0]
        echoed == IF verbose THEN 1 ELSE 0
        line == FirstLine(Trim(CargoText(output.text)))
        size == Nth(SplitWhitespace(line), 1)
        parsed == ByteSizeFromStr(size.v)
    IN  IF ~output.success THEN none
        ELSE IF IsZeroPattern(line, dry_run)
        THEN [none EXCEPT !.outcome = "zero", !.echoed = echoed]
        ELSE IF size.some /\ parsed.ok
        THEN [none EXCEPT !.outcome = "parsed", !.size = parsed.bytes,
                          !.echoed = echoed]
        ELSE [none EXCEPT !.outcome = "unparsable", !.warned = 1, !.echoed = echoed]

\* A faulty variant of ParseOutput: the exit status is not looked at.
ParseOutputIgnoringStatus(output, dry_run, verbose) ==
    LET none == [outcome |-> "unsuccessful", size |-> 0, warned |-> 0, echoed |-> 0]
        echoed == IF verbose THEN 1 ELSE 0
        line == FirstLine(Trim(CargoText(output.text)))
        size == Nth(SplitWhitespace(line), 3)
        parsed == ByteSizeFromStr(size.v)
    IN  IF IsZeroPattern(line, dry_run)
        THEN [none EXCEPT !.outcome = "zero", !.echoed = echoed]
        ELSE IF size.some /\ parsed.ok
        THEN [none EXCEPT !.outcome = "parsed", !.size = parsed.bytes,
                          !.echoed = echoed]
        ELSE [none EXCEPT !.outcome = "unparsable", !.warned = 1, !.echoed = echoed]

\* A faulty variant of ParseOutput: an unparsable size is passed over in silence.
ParseOutputSilent(output, dry_run, verbose) ==
    LET none == [outcome |-> "unsuccessful", size |-> 0, warned |-> 0, echoed |-> 0]
        echoed == IF verbose THEN 1 ELSE 0
        line == FirstLine(Trim(CargoText(output.text)))
        size == Nth(SplitWhitespace(line), 3)
        parsed == ByteSizeFromStr(size.v)
    IN  IF ~output.success THEN none
        ELSE IF IsZeroPattern(line, dry_run)
        THEN [none EXCEPT !.outcome = "zero", !.echoed = echoed]
        ELSE IF size.some /\ parsed.ok
        THEN [none EXCEPT !.outcome = "parsed", !.size = parsed.bytes,
                          !.echoed = echoed]
        ELSE [none EXCEPT !.outcome = "unparsable", !.echoed = echoed]

\* Args::run lines 105-152 for a child that was waited on and gave output:
\* what the execution counts as, its contribution to the sum and the lines
\* written to the error stream.
ParseOutput(output, dry_run, verbose) ==
    LET none == [outcome |-> "unsuccessful", size |-> 0, warned |-> 0, echoed |-> 0]
        echoed == IF verbose THEN 1 ELSE 0
        line == FirstLine(Trim(CargoText(output.text)))
        size == Nth(SplitWhitespace(line), 3)
        parsed == ByteSizeFromStr(size.v)
    IN  IF ~output.success THEN none
        ELSE IF IsZeroPattern(line, dry_run)
        THEN [none EXCEPT !.outcome = "zero", !.echoed = echoed]
        ELSE IF size.some /\ parsed.ok
        THEN [none EXCEPT !.outcome = "parsed", !.size = parsed.bytes,
                          !.echoed = echoed]
        ELSE [none EXCEPT !.outcome = "unparsable", !.warned = 1, !.echoed = echoed]

\* ParseOutput, tabulated over the outputs and modes of the model.
ParseOutputOf ==
    [output \in CargoResults, dry_run \in BOOLEAN, verbose \in BOOLEAN |->
        ParseOutput(output, dry_run, verbose)]

\* A faulty variant of LoopDone: the loop over the executions stops one short.
LoopDoneEarly == next_exec >= Len(executions)

\* Args::run line 98: the for loop has consumed every execution.
LoopDone == next_exec > Len(executions)

\* A faulty variant of wait_with_output: the output is taken without waiting
\* for the child to exit.
WaitWithoutExit ==
    /\ phase = "collect"
    /\ ~LoopDone
    /\ LET e == executions[next_exec] IN
       \/ /\ \E output \in cargo :
               LET r == ParseOutputOf[output, args.dry_run, args.verbose]
               IN  /\ executions' = [executions EXCEPT ![next_exec] =
                         [e EXCEPT !.waited = @ + 1, !.outcome = r.outcome,
                                   !.size = r.size, !.output = output]]
                   /\ sum' = sum + r.size
                   /\ stderr' = [stderr EXCEPT !.parse_warning = @ + r.warned,
                                               !.verbose = @ + r.echoed]
          /\ UNCHANGED <<faults, last_fault>>
       \/ /\ MayFail("wait")
          /\ faults' = faults + 1
          /\ last_fault' = Fault("wait", e.path, "wait", "Warn")
          /\ executions' = [executions EXCEPT ![next_exec] =
                [e EXCEPT !.waited = @ + 1, !.outcome = "wait_failed"]]
          /\ stderr' = [stderr EXCEPT !.wait_warning = @ + 1]
          /\ UNCHANGED sum
    /\ next_exec' = next_exec + 1
    /\ UNCHANGED <<envVars, calls, phase, stack, visited, errored, last_io>>

\* Args::run lines 98-162: one iteration of the loop over the executions. The
\* wait returns once the child has exited, or fails.
wait_with_output ==
    /\ phase = "collect"
    /\ ~LoopDone
    /\ LET e == executions[next_exec] IN
       \/ /\ e.child = "exited"
          /\ \E output \in cargo :
               LET r == ParseOutputOf[output, args.dry_run, args.verbose]
               IN  /\ executions' = [executions EXCEPT ![next_exec] =
                         [e EXCEPT !.waited = @ + 1, !.outcome = r.outcome,
                                   !.size = r.size, !.output = output]]
                   /\ sum' = sum + r.size
                   /\ stderr' = [stderr EXCEPT !.parse_warning = @ + r.warned,
                                               !.verbose = @ + r.echoed]
          /\ UNCHANGED <<faults, last_fault>>
       \/ /\ MayFail("wait")
          /\ faults' = faults + 1
          /\ last_fault' = Fault("wait", e.path, "wait", "Warn")
          /\ executions' = [executions EXCEPT ![next_exec] =
                [e EXCEPT !.waited = @ + 1, !.outcome = "wait_failed"]]
          /\ stderr' = [stderr EXCEPT !.wait_warning = @ + 1]
          /\ UNCHANGED sum
    /\ next_exec' = next_exec + 1
    /\ UNCHANGED <<envVars, calls, phase, stack, visited, errored, last_io>>

\* A faulty variant of summary: no summary after a wait has failed.
SummaryUnlessWaitFailed ==
    /\ phase = "collect"
    /\ LoopDone
    /\ stderr.wait_warning = 0
    /\ stderr' = [stderr EXCEPT !.summary = Append(@,
            [line |-> IF args.dry_run THEN "Total space that will be saved: "
                                      ELSE "Total space saved: ",
             size |-> sum])]
    /\ phase' = "done"
    /\ UNCHANGED <<envVars, calls, stack, executions, next_exec, sum, faults, last_fault,
                   visited, errored, last_io>>

\* A faulty variant of summary: the wording does not depend on the mode.
SummaryOneWording ==
    /\ phase = "collect"
    /\ LoopDone
    /\ stderr' = [stderr EXCEPT !.summary = Append(@,
            [line |-> "Total space saved: ", size |-> sum])]
    /\ phase' = "done"
    /\ UNCHANGED <<envVars, calls, stack, executions, next_exec, sum, faults, last_fault,
                   visited, errored, last_io>>

\* Args::run lines 164-170: the summary line, and Ok(()).
summary ==
    /\ phase = "collect"
    /\ LoopDone
    /\ stderr' = [stderr EXCEPT !.summary = Append(@,
            [line |-> IF args.dry_run THEN "Total space that will be saved: "
                                      ELSE "Total space saved: ",
             size |-> sum])]
    /\ phase' = "done"
    /\ UNCHANGED <<envVars, calls, stack, executions, next_exec, sum, faults, last_fault,
                   visited, errored, last_io>>

\* A scan root whose subdirectories are all project roots, as is the root;
\* none is skipped, the walk is at full depth under the default policy, and
\* the children of one run end in one or two of the modelled ways, every
\* pair of ways being the pair of some run, in both modes; the spawns and the
\* waits may fail, the reads of the file system do not.
InitCollect ==
    /\ parent = [d \in Dirs |-> IF d = Root THEN 0 ELSE Root]
    /\ name = [d \in Dirs |-> OwnName(d)]
    /\ marker = [d \in Dirs |-> TRUE]
    /\ args \in [depth : {MaxDepth}, skips : {NoSkips},
                 io_error_handling : {"RaiseUnexpected"},
                 dry_run : BOOLEAN, verbose : BOOLEAN]
    /\ cargo \in {{r1, r2} : r1 \in CargoResults, r2 \in CargoResults}
    /\ fallible = {"spawn", "wait"}
    /\ Start

Next ==
    \/ process_dir
    \/ next_entry
    \/ loop_end
    \/ child_exit
    \/ wait_with_output
    \/ summary

Spec == Init /\ [][Next]_vars

SpecCollect == InitCollect /\ [][Next]_vars

\* The steps of the program itself; each moves its position: the call stack,
\* the index of the collector's loop or the phase of Args::run.
ProgramStep == process_dir \/ next_entry \/ loop_end \/ wait_with_output \/ summary

\* SpecCollect where the program keeps running while it has a step to take
\* (it is sequential code that nothing suspends) and where every child that
\* is waited for exits in the end.
FairCollect ==
    /\ InitCollect
    /\ [][Next]_vars
    /\ WF_<<phase, stack, next_exec>>(ProgramStep)
    /\ WF_executions(child_exit)

\* ------------------------------------------------------------------ claims
\* The walk is over: process_dir on the scan root has returned.
WalkOver == phase \in {"collect", "done", "failed"}
\* Args::run has returned.
RunOver == phase \in {"done", "failed"}
Execs == 1..Len(executions)
\* A cleanup was dispatched against P: an execution for P was created.
Dispatched(P) == \E k \in Execs : executions[k].path = P
\* The depth budget that process_dir is called with on P.
BudgetAt(P) == args.depth - Level(P)
\* No path component from the scan root to P is in the skip set.
NoSkippedComponent(P) ==
    \A c \in PathTo(parent, P) : ~(name[c] # NoName /\ name[c] \in Skips(args))
\* P is a project root the walk is meant to reach.
Eligible(P) == marker[P] /\ NoSkippedComponent(P) /\ BudgetAt(P) >= 1
\* Failures during the walk: every failure but those of a wait.
WalkFaults ==
    faults - Cardinality({k \in Execs : executions[k].outcome = "wait_failed"})
\* P is d or lies beneath d.
Beneath(P, d) == d \in PathTo(parent, P)

\* C1 (as claimed): after the walk, a directory has a cleanup dispatched
\* against it if and only if it holds the marker file, no component of its
\* path is in the skip set and its depth budget is at least 1.
C1_DispatchedIffEligible ==
    WalkOver => \A P \in Dirs : Dispatched(P) <=> Eligible(P)

\* C1 (amended): after the walk, every directory with a cleanup dispatched
\* against it holds the marker file, has no path component in the skip set and
\* a depth budget of at least 1; and when no read and no spawn failed during
\* the walk, every such directory has a cleanup dispatched against it.
C1_DispatchedOnlyEligible ==
    WalkOver =>
        \A P \in Dirs :
            /\ Dispatched(P) => Eligible(P)
            /\ (WalkFaults = 0 /\ Eligible(P)) => Dispatched(P)

C1_Witness ==
    /\ phase = "done"
    /\ WalkFaults = 0
    /\ \E P, Q \in Dirs :
         /\ P # Root /\ Dispatched(P)
         /\ marker[Q] /\ ~NoSkippedComponent(Q) /\ BudgetAt(Q) >= 1
         /\ ~Dispatched(Q)

\* C2: when the summary has been emitted, every execution created during the
\* walk has been waited on exactly once; none is ever waited on twice.
C2_WaitedExactlyOnce ==
    /\ \A k \in Execs : executions[k].waited <= 1
    /\ phase = "done" => \A k \in Execs : executions[k].waited = 1

C2_Witness ==
    /\ phase = "done"
    /\ Len(executions) >= 2
    /\ \A k \in Execs : executions[k].waited = 1

\* C3 (as claimed): whatever the outcome of the walk, once Args::run has
\* returned no execution that was appended to the list is left without an
\* attempt to wait on it.
C3_NoExecutionDropped ==
    RunOver => \A k \in Execs : executions[k].waited >= 1

\* C4: no child is waited on before the walk has returned, and during the walk
\* the walker always has a step to take, whatever the state of the children it
\* has spawned.
C4_TwoPhase ==
    /\ (next_exec > 1 \/ \E k \in Execs : executions[k].waited > 0)
          => (phase \in {"collect", "done"} /\ stack = <<>>)
    /\ phase = "walk" => ENABLED (process_dir \/ next_entry \/ loop_end)

C4_Witness ==
    /\ phase = "walk"
    /\ Top.pc = "enter"
    /\ marker[Top.path] /\ Top.depth > 0 /\ ~Skipped(Top.path)
    /\ Cardinality({k \in Execs : executions[k].child = "running"}) >= 2

\* The operations of the walker that read the file system.
FsReads == {"read_dir", "entry", "file_type"}
\* The walk is meant to call process_dir on P and get past its tests.
Reachable(P) == NoSkippedComponent(P) /\ BudgetAt(P) >= 1

C6_EveryReadClassified ==
    (last_fault # <<>> /\ last_fault.op \in FsReads) =>
        last_fault.tag =
            handle_io_error(IoErr(last_fault.kind), args.io_error_handling).tag

\* C7: when the only failure of the walk made the call on a subdirectory
\* return an error, that error is printed once, no other call fails, the run
\* is not terminated, and every eligible project root that does not lie
\* beneath that subdirectory is dispatched.
C7_SiblingsContinue ==
    (WalkOver /\ faults = 1 /\ last_fault.tag = "Err" /\ last_fault.dir # Root) =>
        /\ errored = {last_fault.dir}
        /\ phase # "failed"
        /\ stderr.error = 1
        /\ \A P \in Dirs :
             (Eligible(P) /\ ~Beneath(P, last_fault.dir)) => Dispatched(P)

C7_Witness ==
    /\ WalkOver /\ faults = 1 /\ last_fault.tag = "Err" /\ last_fault.dir # Root
    /\ \E P \in Dirs :
         /\ parent[P] = parent[last_fault.dir]
         /\ P > last_fault.dir
         /\ Dispatched(P)

\* C8: when the only failure of the run is a permission-denied failure listing
\* directory d, then under raise-unexpected no call fails, nothing beneath d
\* is visited and everything else that is reachable is; under raise-all, for d
\* below the scan root, the call on d and no other fails, the error is printed
\* once, the run is not terminated and every reachable directory that is not
\* beneath d is visited.
C8_PermissionDenied ==
    (WalkOver /\ faults = 1 /\ last_fault.op = "read_dir"
        /\ last_fault.kind = "PermissionDenied") =>
        LET d == last_fault.dir IN
        /\ args.io_error_handling = "RaiseUnexpected" =>
             /\ errored = {}
             /\ phase # "failed"
             /\ stderr.error = 0
             /\ \A P \in Dirs :
                  IF Beneath(P, d) /\ P # d
                  THEN P \notin visited /\ ~Dispatched(P)
                  ELSE /\ Reachable(P) => P \in visited
                       /\ Eligible(P) => Dispatched(P)
        /\ (args.io_error_handling = "RaiseAll" /\ d # Root) =>
             /\ errored = {d}
             /\ phase # "failed"
             /\ stderr.error = 1
             /\ \A P \in Dirs : (Reachable(P) /\ ~Beneath(P, d)) => P \in visited

C8_Witness ==
    /\ WalkOver /\ faults = 1 /\ last_fault.op = "read_dir"
    /\ last_fault.kind = "PermissionDenied"
    /\ args.io_error_handling = "RaiseAll"
    /\ last_fault.dir # Root
    /\ \E P \in Dirs :
         /\ parent[P] = parent[last_fault.dir]
         /\ P > last_fault.dir
         /\ P \in visited

\* C9: handle_io_error gives Continue with the value for a successful read
\* under every policy, Break for every failure under Ignore, Break for a
\* permission-denied failure and an error for any other under RaiseUnexpected,
\* and an error for every failure under RaiseAll.
C9_Classify ==
    last_io # <<>> =>
        LET res == last_io[1]
            handling == last_io[2]
            h == last_io[3]
        IN  /\ res.ok => h = [tag |-> "Continue", v |-> res.v]
            /\ (~res.ok /\ handling = "Ignore") => h.tag = "Break"
            /\ (~res.ok /\ handling = "RaiseUnexpected") =>
                 h.tag = IF res.kind = "PermissionDenied" THEN "Break" ELSE "Err"
            /\ (~res.ok /\ handling = "RaiseAll") => h.tag = "Err"

C9_Witness ==
    /\ last_io # <<>>
    /\ ~last_io[1].ok
    /\ last_io[1].kind = "PermissionDenied"
    /\ last_io[2] = "RaiseUnexpected"
    /\ last_io[3].tag = "Break"

\* The first line of what execution k wrote, as the collector extracts it.
FirstLineOf(k) == FirstLine(Trim(CargoText(executions[k].output.text)))
\* Execution k was waited on and its child ended with a successful status.
Succeeded(k) ==
    /\ executions[k].outcome \notin {"pending", "wait_failed"}
    /\ executions[k].output.success
\* Parse warnings are written for the unparsable executions and no other.
WarningsAreForUnparsable ==
    stderr.parse_warning =
        Cardinality({k \in Execs : executions[k].outcome = "unparsable"})

\* C10 (as claimed): for a successful execution a first line "Removed 0 files",
\* and in dry-run mode a first line "Summary 0 files", contributes zero with no
\* parse and no parse warning.
C10_ZeroPatterns ==
    /\ \A k \in Execs :
         (Succeeded(k) /\ (FirstLineOf(k) = RemovedNone
                            \/ (args.dry_run /\ FirstLineOf(k) = SummaryNone)))
            => (executions[k].outcome = "zero" /\ executions[k].size = 0)
    /\ WarningsAreForUnparsable

\* C10 (amended): for a successful execution a first line "Removed 0 files"
\* when dry-run is not set, and a first line "Summary 0 files" when it is,
\* contributes zero with no parse and no parse warning.
C10_ZeroPatternsByMode ==
    /\ \A k \in Execs :
         (Succeeded(k) /\ ((~args.dry_run /\ FirstLineOf(k) = RemovedNone)
                            \/ (args.dry_run /\ FirstLineOf(k) = SummaryNone)))
            => (executions[k].outcome = "zero" /\ executions[k].size = 0)
    /\ WarningsAreForUnparsable

C10_Witness ==
    /\ phase = "done"
    /\ ~args.dry_run
    /\ \E k \in Execs :
         /\ Succeeded(k)
         /\ executions[k].output.text = "RemovedNoneFramed"
         /\ executions[k].outcome = "zero"
    /\ stderr.parse_warning = 0
    /\ sum = 0

\* ------------------------------------------------------------ C11 .. C20
\* The line is the zero pattern of the mode.
ZeroLine(line, dry_run) ==
    \/ (dry_run /\ line = SummaryNone)
    \/ (~dry_run /\ line = RemovedNone)
\* What an execution that ended with the given output is to contribute to the
\* total in the given mode: its size token (the 4th whitespace-separated token
\* of the first line of the output) when it completed successfully, the line
\* is not a zero pattern and the token is a size; nothing otherwise.
ContributionOf ==
    [output \in CargoResults, dry_run \in BOOLEAN |->
        LET line == FirstLine(Trim(CargoText(output.text)))
            token == Nth(SplitWhitespace(line), 3)
            size == ByteSizeFromStr(token.v)
        IN  IF output.success /\ ~ZeroLine(line, dry_run) /\ token.some /\ size.ok
            THEN size.bytes
            ELSE 0]
\* What execution k is to contribute: nothing unless its wait gave an output.
Contribution(k) ==
    IF executions[k].outcome \in {"pending", "wait_failed"} THEN 0
    ELSE ContributionOf[executions[k].output, args.dry_run]
\* The orders in which a list of n executions can be taken.
OrdersOf ==
    [n \in 0..MaxDirs |->
        {o \in [1..n -> 1..n] : \A j, k \in 1..n : j # k => o[j] # o[k]}]
\* The contributions c added up in order o, from the n-th on.
RECURSIVE AddUp(_, _, _)
AddUp(c, o, n) == IF n > Len(c) THEN 0 ELSE c[o[n]] + AddUp(c, o, n + 1)

\* C11: the running total is the sum of the contributions of the executions
\* collected so far, and the total reported in the summary is the sum of the
\* contributions of all executions added up in any order.
C11_TotalIsSumOfParsed ==
    LET c == [k \in Execs |-> Contribution(k)]
    IN  /\ sum = AddUp(c, [k \in Execs |-> k], 1)
        /\ phase = "done" =>
             \A o \in OrdersOf[Len(executions)] :
                stderr.summary[1].size = AddUp(c, o, 1)

C11_Witness ==
    /\ phase = "done"
    /\ \E j, k \in Execs :
         /\ j < k
         /\ executions[j].outcome = "parsed" /\ executions[k].outcome = "parsed"
         /\ executions[j].size > executions[k].size
    /\ \E k \in Execs : executions[k].outcome \notin {"parsed", "pending"}
    /\ stderr.summary[1].size > 7 * MiB

\* The wait on execution k gave an output with an unsuccessful exit status.
Unsuccessful(k) ==
    /\ executions[k].outcome \notin {"pending", "wait_failed"}
    /\ ~executions[k].output.success
\* The collector has taken the executions in list order, one wait each, up to
\* the one it takes next.
CollectedInOrder ==
    /\ \A k \in Execs : executions[k].waited = IF k < next_exec THEN 1 ELSE 0
    /\ phase = "done" => next_exec = Len(executions) + 1

\* C12: an execution that did not complete successfully is counted as such
\* and contributes nothing; parse warnings and verbose echoes are written for
\* successful executions only, the collector writes no error line, and the
\* executions after it are collected as they would be otherwise.
C12_UnsuccessfulIgnored ==
    /\ \A k \in Execs :
         Unsuccessful(k) =>
            (executions[k].outcome = "unsuccessful" /\ executions[k].size = 0)
    /\ stderr.parse_warning <= Cardinality({k \in Execs : Succeeded(k)})
    /\ stderr.verbose <= Cardinality({k \in Execs : Succeeded(k)})
    /\ stderr.error = Cardinality(errored \ {Root})
    /\ (\A k \in Execs : executions[k].waited > 0 => Unsuccessful(k)) =>
          (sum = 0 /\ stderr.parse_warning = 0 /\ stderr.verbose = 0)
    /\ CollectedInOrder

C12_Witness ==
    /\ phase = "done"
    /\ \E j, k \in Execs :
         /\ j < k
         /\ Unsuccessful(j)
         /\ executions[j].output.text = "RemovedSome"
         /\ executions[k].outcome = "parsed"
    /\ stderr.parse_warning = 0
    /\ stderr.summary[1].size = (12 * MiB) \div 10

\* An execution that ended with the given output in the given mode completed
\* successfully, its first line is not a zero pattern, and the 4th token of
\* that line is missing or is not a size.
BadTokenOf ==
    [output \in CargoResults, dry_run \in BOOLEAN |->
        LET line == FirstLine(Trim(CargoText(output.text)))
            tokens == SplitWhitespace(line)
        IN  /\ output.success
            /\ ~ZeroLine(line, dry_run)
            /\ (Len(tokens) < 4 \/ ~ByteSizeFromStr(tokens[4]).ok)]
\* The executions collected so far whose size token is missing or invalid.
BadToken ==
    {k \in Execs : /\ executions[k].outcome \notin {"pending", "wait_failed"}
                   /\ BadTokenOf[executions[k].output, args.dry_run]}

\* C13: one parse warning is written for each collected execution that
\* completed successfully with a first line that is no zero pattern and a
\* missing or invalid 4th token, and for no other; such an execution
\* contributes nothing, and the executions after it are collected.
C13_OneWarningPerBadToken ==
    /\ stderr.parse_warning = Cardinality(BadToken)
    /\ \A k \in BadToken :
         /\ executions[k].outcome = "unparsable"
         /\ executions[k].size = 0
         /\ executions[k].waited = 1
    /\ \A k \in Execs : k < next_exec => executions[k].outcome # "pending"
    /\ phase = "done" => next_exec > Len(executions)

C13_Witness ==
    /\ phase = "done"
    /\ \E j, k \in Execs :
         /\ j < k
         /\ j \in BadToken /\ executions[j].output.text = "BadSize"
         /\ executions[k].outcome = "parsed"
    /\ stderr.parse_warning = 1
    /\ stderr.summary[1].size = 7 * MiB

\* The executions whose wait failed.
WaitFailed == {k \in Execs : executions[k].outcome = "wait_failed"}

\* C14: one warning is written for each execution whose wait failed; such an
\* execution was waited on once, has no output and contributes nothing; the
\* run is not terminated by it, and the collector always has a next step: after
\* the last execution the summary, before it the wait on the next execution,
\* which returns once the child has exited.
C14_WaitFailureContained ==
    /\ stderr.wait_warning = Cardinality(WaitFailed)
    /\ \A k \in WaitFailed :
         /\ executions[k].waited = 1
         /\ executions[k].size = 0
         /\ executions[k].output = NoOutput
         /\ k < next_exec
    /\ WaitFailed # {} => phase \in {"collect", "done"}
    /\ (WaitFailed # {} /\ WaitFailed = 1..(next_exec - 1)) => sum = 0
    /\ phase = "collect" =>
         IF LoopDone THEN ENABLED summary
         ELSE IF executions[next_exec].child = "running" THEN ENABLED child_exit
         ELSE executions[next_exec].child = "exited" /\ cargo # {}
    /\ phase = "done" =>
         /\ \A k \in Execs : executions[k].outcome # "pending"
         /\ Len(stderr.summary) = 1

C14_Witness ==
    /\ phase = "done"
    /\ \E j, k \in Execs :
         /\ j < k
         /\ j \in WaitFailed
         /\ executions[k].outcome = "parsed"
    /\ stderr.wait_warning = 1
    /\ stderr.summary[1].size = 512

\* The summary lines written so far are right: none before Args::run has
\* returned Ok, then one, written after every execution was collected, with
\* the wording of the mode and the total.
SummaryRight ==
    /\ Len(stderr.summary) = IF phase = "done" THEN 1 ELSE 0
    /\ phase = "done" =>
         /\ next_exec = Len(executions) + 1
         /\ \A k \in Execs : executions[k].waited = 1
         /\ stderr.summary[1] =
              [line |-> IF args.dry_run THEN "Total space that will be saved: "
                                        ELSE "Total space saved: ",
               size |-> sum]
    /\ phase = "failed" => Root \in errored
    /\ (WalkOver /\ Root \notin errored) => phase \in {"collect", "done"}

C16_DepthBoundsWalk ==
    /\ \A P \in visited : Level(P) < args.depth
    /\ \A k \in Execs : Level(executions[k].path) < args.depth
    /\ stderr.checking <= Cardinality({P \in Dirs : Level(P) < args.depth})
    /\ args.depth = 0 =>
         /\ executions = <<>> /\ visited = {} /\ sum = 0
         /\ phase = "done" => stderr.summary[1].size = 0
    /\ args.depth = 1 =>
         /\ visited \subseteq {Root}
         /\ \A k \in Execs : executions[k].path = Root
         /\ (WalkOver /\ marker[Root] /\ ~Skipped(Root)
               /\ ~(last_fault # <<>> /\ last_fault.op = "spawn"))
              => Len(executions) = 1

C16_Witness ==
    /\ phase = "done"
    /\ args.depth = 1
    /\ Len(executions) = 1 /\ executions[1].path = Root
    /\ visited = {Root}
    /\ \E Q \in Dirs : parent[Q] = Root /\ marker[Q] /\ ~Skipped(Q)

\* C17: a directory with a path component (its own basename included) in the
\* skip set never gets past the tests of process_dir, is never dispatched and
\* its call never fails; and process_dir is not even called on a directory
\* that lies strictly beneath a skipped one. This holds whatever fails.
C17_SkipPrunesSubtree ==
    /\ \A P \in Dirs :
         ~NoSkippedComponent(P) =>
            (P \notin visited /\ ~Dispatched(P) /\ P \notin errored)
    /\ \A j \in 1..Len(stack) :
         stack[j].path # Root => NoSkippedComponent(parent[stack[j].path])
    /\ stderr.checking <= Cardinality({P \in Dirs : NoSkippedComponent(P)})

C17_Witness ==
    /\ phase = "done"
    /\ faults >= 1
    /\ Dispatched(Root)
    /\ \E P, Q \in Dirs :
         /\ parent[Q] = P
         /\ Skipped(P) /\ marker[P]
         /\ ~Skipped(Q) /\ marker[Q] /\ BudgetAt(Q) >= 1
         /\ Q \notin visited /\ ~Dispatched(Q) /\ ~Dispatched(P)

\* A step that changes the total is a step of the collector on the execution
\* it takes next, whose child has exited: the execution is then waited on, its
\* size token has parsed and its size is what the total grows by.
TotalStep ==
    /\ sum' > sum
    /\ phase = "collect" /\ phase' = "collect"
    /\ executions[next_exec].child = "exited"
    /\ executions[next_exec].waited = 0
    /\ next_exec' = next_exec + 1
    /\ executions'[next_exec].waited = 1
    /\ executions'[next_exec].outcome = "parsed"
    /\ sum' = sum + executions'[next_exec].size

\* C18: the total starts at zero and every step that changes it is a step of
\* the collector that adds the parsed size of the execution it has waited on;
\* so the total never decreases and no step of the walk changes it.
C18_TotalMonotonic ==
    /\ sum = 0
    /\ [][TotalStep]_sum
    /\ [](phase = "walk" => sum = 0)

C18_Witness ==
    /\ phase = "collect"
    /\ next_exec = 3
    /\ executions[1].outcome = "parsed" /\ executions[2].outcome = "parsed"
    /\ sum = executions[1].size + executions[2].size
    /\ sum > 7 * MiB

\* A project root that process_dir has tried to list, with or without
\* success, has its execution in the list; the list holds no directory twice
\* and holds a directory before every directory beneath it; and once the
\* summary is written every execution has been collected.
DispatchedBeforeListed ==
    /\ \A j \in 1..Len(stack) :
         (stack[j].pc = "loop" /\ marker[stack[j].path]) => Dispatched(stack[j].path)
    /\ (last_fault # <<>> /\ last_fault.op = "read_dir" /\ marker[last_fault.dir])
          => Dispatched(last_fault.dir)
    /\ \A j, k \in Execs :
         /\ (j # k) => executions[j].path # executions[k].path
         /\ (j # k /\ Beneath(executions[k].path, executions[j].path)) => j < k
    /\ phase = "done" => \A k \in Execs : executions[k].waited = 1

\* A step leaves the executions of the list in place: during the walk it
\* appends at most one, after the walk it appends none.
ListStep ==
    /\ Len(executions') >= Len(executions)
    /\ Len(executions') <= Len(executions) + (IF phase = "walk" THEN 1 ELSE 0)
    /\ \A k \in Execs : executions'[k].path = executions[k].path
    /\ phase = "walk" => SubSeq(executions', 1, Len(executions)) = executions

\* C19: a project root is dispatched before it is listed, so that a failure
\* of its listing leaves its execution in the list, to be collected with the
\* others; the list is append-only during the walk and fixed in length and
\* order after it, and a directory precedes its descendants in it.
C19_DispatchBeforeListing ==
    /\ []DispatchedBeforeListed
    /\ [][ListStep]_executions

C19_Witness ==
    /\ phase = "done"
    /\ last_fault # <<>>
    /\ last_fault.op = "read_dir"
    /\ last_fault.dir # Root
    /\ marker[last_fault.dir]
    /\ \E j, k \in Execs :
         /\ j < k
         /\ executions[j].path = last_fault.dir
         /\ executions[j].waited = 1 /\ executions[j].outcome = "parsed"
         /\ executions[k].waited = 1

\* process_dir is called at most once on a directory, on a directory at a
\* time along one path of the tree, and its depth argument is a natural
\* number.
WalkBounded ==
    /\ \A d \in Dirs : calls[d] <= 1
    /\ \A j \in 1..Len(stack) :
         /\ stack[j].depth >= 0
         /\ calls[stack[j].path] = 1
         /\ j > 1 => /\ parent[stack[j].path] = stack[j - 1].path
                     /\ stack[j].depth = stack[j - 1].depth - 1
    /\ \A d \in visited : calls[d] = 1
\* While the child of the execution that the collector takes next is running
\* and its wait does not fail, the program has no step to take.
BlockedOnRunningChild ==
    (/\ phase = "collect"
     /\ ~LoopDone
     /\ executions[next_exec].child = "running"
     /\ ~MayFail("wait")) => ~ENABLED ProgramStep
\* The collector goes past an execution only when its child has exited or the
\* wait on it has failed.
CollectorStep ==
    /\ next_exec' = next_exec + 1
    /\ \/ executions[next_exec].child = "exited"
       \/ executions'[next_exec].outcome = "wait_failed"

\* The largest number of steps that a call of process_dir on d can take, the
\* calls that it makes included: one step up to the loop, one for every entry
\* and one at the end of the loop.
RECURSIVE CallSteps(_)
CallSteps(d) ==
    LET RECURSIVE Sum(_)
        Sum(S) == IF S = {} THEN 0
                  ELSE LET c == CHOOSE c \in S : TRUE
                       IN  1 + CallSteps(c) + Sum(S \ {c})
    IN  2 + (IF marker[d] THEN 1 ELSE 0) + Sum({c \in Dirs : parent[c] = d})
\* The largest number of steps that are left to the call in frame f.
RECURSIVE StepsFrom(_, _)
StepsFrom(d, i) ==
    IF i > Len(Entries(d)) THEN 1
    ELSE LET e == Entries(d)[i]
         IN  1 + (IF e = MarkerEntry THEN 0 ELSE CallSteps(e)) + StepsFrom(d, i + 1)
FrameSteps(f) == IF f.pc = "enter" THEN CallSteps(f.path) ELSE StepsFrom(f.path, f.i)
RECURSIVE WalkSteps(_)
WalkSteps(j) == IF j = 0 THEN 0 ELSE FrameSteps(stack[j]) + WalkSteps(j - 1)
\* The steps that are left to the collector and to the children it waits for:
\* an exit and a wait for each execution, and the summary.
RECURSIVE CollectSteps(_)
CollectSteps(k) ==
    IF k > Len(executions) THEN 1
    ELSE (IF executions[k].child = "running" THEN 2 ELSE 1) + CollectSteps(k + 1)
\* A bound on the number of steps that are left to the run. A step of the walk
\* may add an execution, hence the factor.
StepsLeft ==
    CASE phase = "walk" -> 3 * WalkSteps(Len(stack)) + CollectSteps(1)
      [] phase = "collect" -> CollectSteps(next_exec)
      [] OTHER -> 0

\* C20: the walk calls process_dir at most once per directory, with a depth
\* that is never negative; every step of the run lowers a bound on the number
\* of steps that are left, so the walk and the run come to an end when the
\* steps that can be taken are taken; the walk always has a step to take, the
\* collector has one when the child it waits for has exited and has none
\* while that child runs, unless the wait fails.
C20_Terminates ==
    /\ []WalkBounded
    /\ [](StepsLeft >= 0 /\ (StepsLeft = 0 <=> RunOver))
    /\ [][StepsLeft' < StepsLeft]_vars
    /\ [](phase = "walk" => ENABLED (process_dir \/ next_entry \/ loop_end))
    /\ []((phase = "collect" /\ ~LoopDone /\ executions[next_exec].child = "exited")
            => ENABLED wait_with_output)
    /\ []((phase = "collect" /\ LoopDone) => ENABLED summary)
    /\ []BlockedOnRunningChild
    /\ [][CollectorStep]_next_exec

C20_Witness ==
    /\ phase = "collect"
    /\ next_exec = 2
    /\ Len(executions) >= 2
    /\ executions[1].outcome = "parsed"
    /\ executions[2].child = "running"
    /\ ~MayFail("wait")
    /\ \E d \in Dirs : calls[d] = 1 /\ d \notin visited

====
